---- MODULE Spec2Model ----
(***************************************************************************)
(* Model of the job-posting deduplication code of the repository:          *)
(*   src/src/data/deduplication.py    class JobDeduplicator                *)
(*   src/scripts/deduplicate_final.py the deduplication script             *)
(* Text is modelled character by character: a Python str is a sequence of  *)
(* one-character strings, a missing value (None / NaN) is a raw value      *)
(* whose field na is TRUE.                                                 *)
(***************************************************************************)
EXTENDS Integers, Sequences, FiniteSets, TLC

VARIABLES
    impl,              \* which implementation runs: "JobDeduplicator" or "deduplicate_final"
    pc,                \* position of the run in the code
    input,             \* the table as the caller loaded it (never assigned after Init)
    df,                \* the DataFrame df: a sequence of rows
    columns,           \* the columns df has
    error,             \* the exception the run ended with, "" when none
    duplicate_summary, \* duplicate_summary / dup_by_source: printed per-source report
    exact_dupes,       \* len(exact_dupes) / duplicates: the printed duplicate total
    sample_size,       \* argument of text_similarity_check
    non_dupes,         \* the sample drawn by text_similarity_check (positions of df)
    similarity_matrix, \* similarity_matrix of text_similarity_check, <<>> when not computed
    similar_pairs,     \* similar_pairs of text_similarity_check
    loop_i,            \* i of the loop at line 102
    loop_j,            \* j of the loop at line 103
    compared,          \* the index pairs line 104 has read, in order
    df_final,          \* df_final / df_clean: the deduplicated output table
    nz_fn,             \* normalizer under test
    nz_in,             \* its raw argument
    nz_out,            \* results of its successive applications
    runs,              \* how many times the deduplication has been started
    linkedin,          \* collect_jobs of collect_linkedin_rapidapi.py: its locals
    indeed,            \* IndeedScraper.search_jobs: its locals and the scraper's fields
    usajobs            \* USAJobsCollector.search_jobs: its locals

\* the three collectors, which the deduplication does not touch
Collectors == <<linkedin, indeed, usajobs>>
NotCalled == [pc |-> "not called"]
CollectorsIdle ==
    /\ linkedin = NotCalled /\ indeed = NotCalled /\ usajobs = NotCalled

vars == <<impl, pc, input, df, columns, error, duplicate_summary, exact_dupes,
          sample_size, non_dupes, similarity_matrix, similar_pairs, loop_i, loop_j,
          compared, df_final, runs, Collectors,
                   nz_fn, nz_in, nz_out>>

(***************************************************************************)
(* Bounds of the model.                                                    *)
(***************************************************************************)
MaxRecords == 3        \* longest input table
MaxStrLen == 3         \* longest string given to a normalizer on its own
MaxSample == 3         \* largest similarity matrix given to the pair loops on their own

(***************************************************************************)
(* Characters and Python's str primitives.                                 *)
(***************************************************************************)
UpperCase == <<"A","B","C","D","E","F","G","H","I","J","K","L","M",
               "N","O","P","Q","R","S","T","U","V","W","X","Y","Z">>
LowerCase == <<"a","b","c","d","e","f","g","h","i","j","k","l","m",
               "n","o","p","q","r","s","t","u","v","w","x","y","z">>
Digits == <<"0","1","2","3","4","5","6","7","8","9">>

Range(f) == {f[k] : k \in DOMAIN f}

\* \s of re and the characters str.strip() removes
SpaceChars == {" ", "\t", "\n"}
IsSpace(c) == c \in SpaceChars
\* \w of re
WordChars == Range(UpperCase) \cup Range(LowerCase) \cup Range(Digits) \cup {"_"}
IsWord(c) == c \in WordChars

LowerOf == [c \in Range(UpperCase) |->
              LowerCase[CHOOSE k \in DOMAIN UpperCase : UpperCase[k] = c]]
LowerChar(c) == IF c \in DOMAIN LowerOf THEN LowerOf[c] ELSE c

\* str.lower()
RECURSIVE Lower(_)
Lower(s) == IF s = <<>> THEN <<>> ELSE <<LowerChar(Head(s))>> \o Lower(Tail(s))

RECURSIVE LStrip(_)
LStrip(s) == IF s # <<>> /\ IsSpace(Head(s)) THEN LStrip(Tail(s)) ELSE s

RECURSIVE RStrip(_)
RStrip(s) ==
    IF s # <<>> /\ IsSpace(s[Len(s)]) THEN RStrip(SubSeq(s, 1, Len(s) - 1)) ELSE s

\* str.strip()
Strip(s) == RStrip(LStrip(s))

\* str.replace(old, new): leftmost non-overlapping occurrences, old non-empty
RECURSIVE Replace(_, _, _)
Replace(s, old, new) ==
    IF Len(s) < Len(old) THEN s
    ELSE IF SubSeq(s, 1, Len(old)) = old
         THEN new \o Replace(SubSeq(s, Len(old) + 1, Len(s)), old, new)
         ELSE <<Head(s)>> \o Replace(Tail(s), old, new)

\* re.sub(r'\s+', ' ', s): every maximal run of whitespace becomes one space
RECURSIVE CollapseSpace(_)
CollapseSpace(s) ==
    IF s = <<>> THEN <<>>
    ELSE IF IsSpace(Head(s))
         THEN <<" ">> \o CollapseSpace(LStrip(s))
         ELSE <<Head(s)>> \o CollapseSpace(Tail(s))

\* \b of re at the gap before position q of s (q in 1..Len(s)+1)
IsWordAt(s, q) == q \in 1..Len(s) /\ IsWord(s[q])
Boundary(s, q) == IsWordAt(s, q - 1) # IsWordAt(s, q)

\* Length of the match of \b(alt1|alt2|...)\b at position p of s, then of an
\* optional '.' when dot; 0 when the pattern does not match at p.  The
\* alternatives are tried in order, as re does.
MatchLen(s, p, alts, dot) ==
    LET fits(k) == /\ p + Len(alts[k]) - 1 <= Len(s)
                   /\ SubSeq(s, p, p + Len(alts[k]) - 1) = alts[k]
                   /\ Boundary(s, p + Len(alts[k]))
        hits == {k \in DOMAIN alts : fits(k)}
    IN  IF ~Boundary(s, p) \/ hits = {} THEN 0
        ELSE LET k == CHOOSE h \in hits : \A g \in hits : h <= g
                 e == p + Len(alts[k])
             IN  IF dot /\ e <= Len(s) /\ s[e] = "." THEN Len(alts[k]) + 1
                 ELSE Len(alts[k])

\* re.sub(r'\b(alt1|alt2|...)\b', '', s), with \.? appended to the pattern when dot
RECURSIVE ReSubFrom(_, _, _, _)
ReSubFrom(s, p, alts, dot) ==
    IF p > Len(s) THEN <<>>
    ELSE LET m == MatchLen(s, p, alts, dot)
         IN  IF m > 0 THEN ReSubFrom(s, p + m, alts, dot)
             ELSE <<s[p]>> \o ReSubFrom(s, p + 1, alts, dot)

ReSub(s, alts, dot) == ReSubFrom(s, 1, alts, dot)

(***************************************************************************)
(* Raw field values and results of a call.                                 *)
(***************************************************************************)
Missing == [na |-> TRUE, str |-> <<>>]          \* None / NaN: pd.isna is True
Str(s) == [na |-> FALSE, str |-> s]             \* a str value

Ret(s) == [ok |-> TRUE, val |-> s, exc |-> ""]          \* return s
Raise(e) == [ok |-> FALSE, val |-> <<>>, exc |-> e]     \* raise e

(***************************************************************************)
(* The regular expressions' alternatives.                                  *)
(***************************************************************************)
\* (inc|llc|ltd|corporation|corp|co|company)
CompanySuffixes ==
    << <<"i","n","c">>, <<"l","l","c">>, <<"l","t","d">>,
       <<"c","o","r","p","o","r","a","t","i","o","n">>,
       <<"c","o","r","p">>, <<"c","o">>,
       <<"c","o","m","p","a","n","y">> >>

\* (i{1,3}|iv|v|1|2|3) of JobDeduplicator.normalize_title; i{1,3} is greedy
JD_TitleLevels ==
    << <<"i","i","i">>, <<"i","i">>, <<"i">>, <<"i","v">>, <<"v">>,
       <<"1">>, <<"2">>, <<"3">> >>

\* (i{1,3}|iv|v|vi|1|2|3|4) of deduplicate_final.normalize_title
DF_TitleLevels ==
    << <<"i","i","i">>, <<"i","i">>, <<"i">>, <<"i","v">>, <<"v">>, <<"v","i">>,
       <<"1">>, <<"2">>, <<"3">>, <<"4">> >>

\* (entry|senior|jr|sr|junior|mid|level)
TitleModifiers ==
    << <<"e","n","t","r","y">>, <<"s","e","n","i","o","r">>, <<"j","r">>,
       <<"s","r">>, <<"j","u","n","i","o","r">>, <<"m","i","d">>,
       <<"l","e","v","e","l">> >>

\* replacements of JobDeduplicator.normalize_location, in the dict's order
replacements ==
    << << <<"n","e","w"," ","y","o","r","k"," ","c","i","t","y">>,
          <<"n","e","w"," ","y","o","r","k">> >>,
       << <<"n","y","c">>, <<"n","e","w"," ","y","o","r","k">> >>,
       << <<"s","f">>, <<"s","a","n"," ","f","r","a","n","c","i","s","c","o">> >>,
       << <<"l","a">>, <<"l","o","s"," ","a","n","g","e","l","e","s">> >> >>

(***************************************************************************)
(* class JobDeduplicator (src/src/data/deduplication.py)                   *)
(***************************************************************************)
\* normalize_company without the pd.isna test: str(nan) is 'nan'
JD_normalize_company_without_isna(company) ==
    LET c1 == Strip(Lower(IF company.na THEN <<"n","a","n">> ELSE company.str))
        c2 == ReSub(c1, CompanySuffixes, TRUE)
    IN  Ret(Strip(CollapseSpace(c2)))

JD_normalize_company(company) ==
    IF company.na THEN Ret(<<>>)
    ELSE LET c1 == Strip(Lower(company.str))
             c2 == ReSub(c1, CompanySuffixes, TRUE)
         IN  Ret(Strip(CollapseSpace(c2)))

\* Line 32 reads the name `company`, which normalize_title does not bind and
\* the module does not define: a NameError for every title that is not missing.
JD_normalize_title(title) ==
    IF title.na THEN Ret(<<>>)
    ELSE LET t1 == Strip(Lower(title.str))
             t2 == ReSub(t1, JD_TitleLevels, FALSE)
             t3 == ReSub(t2, TitleModifiers, FALSE)
         IN  Raise("NameError")

RECURSIVE ApplyReplacements(_, _)
ApplyReplacements(s, k) ==
    IF k > Len(replacements) THEN s
    ELSE ApplyReplacements(Replace(s, replacements[k][1], replacements[k][2]), k + 1)

JD_normalize_location(location) ==
    IF location.na THEN Ret(<<>>)
    ELSE Ret(ApplyReplacements(Strip(Lower(location.str)), 1))

(***************************************************************************)
(* script deduplicate_final.py (src/scripts/deduplicate_final.py)          *)
(***************************************************************************)
normalize_text(text) ==
    IF text.na THEN <<>>
    ELSE CollapseSpace(Strip(Lower(text.str)))

DF_normalize_company(company) ==
    LET t1 == normalize_text(company)
        t2 == ReSub(t1, CompanySuffixes, TRUE)
    IN  Ret(Strip(CollapseSpace(t2)))

DF_normalize_title(title) ==
    LET t1 == normalize_text(title)
        t2 == ReSub(t1, DF_TitleLevels, FALSE)
        t3 == ReSub(t2, TitleModifiers, FALSE)
    IN  Ret(Strip(CollapseSpace(t3)))

\* df['location'].apply(normalize_text)
DF_normalize_location(location) == Ret(normalize_text(location))

(***************************************************************************)
(* The normalizers by implementation.                                      *)
(***************************************************************************)
Impls == {"JobDeduplicator", "deduplicate_final"}

normalize_company(i, raw) ==
    IF i = "JobDeduplicator" THEN JD_normalize_company(raw) ELSE DF_normalize_company(raw)

normalize_title(i, raw) ==
    IF i = "JobDeduplicator" THEN JD_normalize_title(raw) ELSE DF_normalize_title(raw)

normalize_location(i, raw) ==
    IF i = "JobDeduplicator" THEN JD_normalize_location(raw) ELSE DF_normalize_location(raw)

Normalizers == {"normalize_company", "normalize_title", "normalize_location"}

CallNormalizer(i, fn, raw) ==
    CASE fn = "normalize_company" -> normalize_company(i, raw)
      [] fn = "normalize_title" -> normalize_title(i, raw)
      [] fn = "normalize_location" -> normalize_location(i, raw)

(***************************************************************************)
(* The input table.  A row is a function from column name to value; the    *)
(* input is jobs_all_combined.csv, written by create_final_dataset.py.    *)
(***************************************************************************)
InputColumns == {"job_id", "title", "company_name", "location", "description", "source"}
NormColumns == {"company_norm", "title_norm", "location_norm", "composite_key"}

S_AcmeInc == <<"A","c","m","e"," ","I","n","c",".">>
S_acme == <<"a","c","m","e">>
S_ACME == <<"A","C","M","E">>
S_BetaLLC == <<"B","e","t","a"," ","L","L","C">>
S_DataAnalystII == <<"D","a","t","a"," ","A","n","a","l","y","s","t"," ","I","I">>
S_data_analyst == <<"d","a","t","a"," ","a","n","a","l","y","s","t">>
S_Data__Analyst == <<"D","a","t","a"," "," ","A","n","a","l","y","s","t">>
S_NewYorkNY == <<"N","e","w"," ","Y","o","r","k",","," ","N","Y">>
S_new_york_ny == <<"n","e","w"," ","y","o","r","k",","," ","n","y">>
S_nyc == <<"n","y","c">>
S_NewYorkCity == <<"N","e","w"," ","Y","o","r","k"," ","C","i","t","y">>
S_sql_python == <<"s","q","l"," ","p","y","t","h","o","n">>
S_SQL_Python == <<"S","Q","L",","," ","P","y","t","h","o","n">>
S_excel_sql == <<"e","x","c","e","l"," ","s","q","l">>
S_linkedin == <<"l","i","n","k","e","d","i","n">>
S_adzuna == <<"a","d","z","u","n","a">>

Posting(company, title, location, description, source) ==
    [company_name |-> company, title |-> title, location |-> location,
     description |-> description, source |-> source]

\* The postings an input table is drawn from.
Postings ==
    { Posting(Str(S_AcmeInc), Str(S_DataAnalystII), Str(S_NewYorkNY),
              Str(S_sql_python), Str(S_linkedin)),
      Posting(Str(S_acme), Str(S_data_analyst), Str(S_nyc),
              Str(S_excel_sql), Str(S_adzuna)),
      Posting(Str(S_BetaLLC), Str(S_DataAnalystII), Str(S_NewYorkNY),
              Str(S_sql_python), Str(S_linkedin)),
      Posting(Str(S_ACME), Str(S_Data__Analyst), Str(S_new_york_ny),
              Missing, Str(S_adzuna)),
      Posting(Str(S_AcmeInc), Missing, Str(S_nyc),
              Str(S_sql_python), Str(S_linkedin)),
      Posting(Str(S_AcmeInc), Missing, Str(S_nyc),
              Str(S_excel_sql), Missing),
      Posting(Str(S_BetaLLC), Missing, Str(S_NewYorkCity),
              Missing, Str(S_adzuna)),
      Posting(Missing, Missing, Missing, Str(S_SQL_Python), Str(S_adzuna)),
      Posting(Missing, Missing, Str(S_nyc), Str(<<>>), Str(S_linkedin)) }

\* The table read from jobs_all_combined.csv: job_id is the row's position.
RowOf(p, k, cols) ==
    [c \in cols |-> IF c = "job_id" THEN k ELSE p[c]]

Tables(cols) ==
    UNION { { [k \in 1..n |-> RowOf(ps[k], k, cols)] : ps \in [1..n -> Postings] }
            : n \in 0..MaxRecords }

\* df[name] = values with the values written one row off
SetColumn_misaligned(table, cols, name, values) ==
    [k \in 1..Len(table) |->
        [c \in cols \cup {name} |->
            IF c = name THEN values[(k % Len(table)) + 1] ELSE table[k][c]]]

\* df[name] = values: a column is added to (or replaced in) every row
SetColumn(table, cols, name, values) ==
    [k \in 1..Len(table) |->
        [c \in cols \cup {name} |-> IF c = name THEN values[k] ELSE table[k][c]]]

\* df[col].apply(fn): the results of fn on the column's values
apply(table, col, i, fn) ==
    [k \in 1..Len(table) |-> CallNormalizer(i, fn, table[k][col])]

\* df[mask] with the mask's negation lost: the other rows are selected
RECURSIVE SelectRows_negated(_, _, _)
SelectRows_negated(table, mask, k) ==
    IF k > Len(table) THEN <<>>
    ELSE IF ~mask[k] THEN <<table[k]>> \o SelectRows_negated(table, mask, k + 1)
         ELSE SelectRows_negated(table, mask, k + 1)

\* df[mask] with the selected rows in the reverse of their order
RECURSIVE SelectRows_reversed(_, _, _)
SelectRows_reversed(table, mask, k) ==
    IF k > Len(table) THEN <<>>
    ELSE IF mask[k] THEN SelectRows_reversed(table, mask, k + 1) \o <<table[k]>>
         ELSE SelectRows_reversed(table, mask, k + 1)

\* df[mask]: the rows whose position satisfies the mask, in order
RECURSIVE SelectRows(_, _, _)
SelectRows(table, mask, k) ==
    IF k > Len(table) THEN <<>>
    ELSE IF mask[k] THEN <<table[k]>> \o SelectRows(table, mask, k + 1)
         ELSE SelectRows(table, mask, k + 1)

(***************************************************************************)
(* Steps of the deduplication run.                                         *)
(***************************************************************************)
\* a key built without the company part
composite_key_without_company(company_norm, title_norm, location_norm) ==
    title_norm \o <<"|">> \o title_norm \o <<"|">> \o location_norm

\* composite_key: company_norm + '|' + title_norm + '|' + location_norm
composite_key(company_norm, title_norm, location_norm) ==
    company_norm \o <<"|">> \o title_norm \o <<"|">> \o location_norm

\* df.duplicated(subset=['composite_key'], keep='last') at row k
duplicated_last(table, k) ==
    \E h \in (k + 1)..Len(table) : table[h]["composite_key"] = table[k]["composite_key"]

\* keep=False in the place of keep='first': no row of a repeated key is kept
duplicated_none_kept(table, k) ==
    \E h \in (1..Len(table)) \ {k} : table[h]["composite_key"] = table[k]["composite_key"]

\* df.duplicated(subset=['composite_key'], keep='first') at row k
duplicated_first(table, k) ==
    \E h \in 1..(k - 1) : table[h]["composite_key"] = table[k]["composite_key"]

\* df.duplicated(subset=['composite_key'], keep=False) at row k
duplicated_any(table, k) ==
    \E h \in (1..Len(table)) \ {k} : table[h]["composite_key"] = table[k]["composite_key"]

\* Code-point order of the characters, for sorting group keys
CodeOrder ==
    <<"\t", "\n", " ", "'", ",", "-", ".">> \o Digits \o <<":">> \o UpperCase
        \o <<"_">> \o LowerCase \o <<"{", "|", "}">>
OrdOf == [c \in Range(CodeOrder) |-> CHOOSE k \in DOMAIN CodeOrder : CodeOrder[k] = c]
Ord(c) == OrdOf[c]

RECURSIVE StrLess(_, _)
StrLess(a, b) ==
    IF b = <<>> THEN FALSE
    ELSE IF a = <<>> THEN TRUE
    ELSE IF Head(a) = Head(b) THEN StrLess(Tail(a), Tail(b))
    ELSE Ord(Head(a)) < Ord(Head(b))

\* df.groupby('composite_key').ngroup() at row k: groups are numbered in
\* sorted key order
ngroup(table, k) ==
    Cardinality({ table[h]["composite_key"] : h \in
                    { g \in 1..Len(table) :
                        StrLess(table[g]["composite_key"], table[k]["composite_key"]) } })

EmptyOutput == [columns |-> {}, rows |-> <<>>]

PipelineIdle ==
    /\ nz_fn = "" /\ nz_in = Missing /\ nz_out = <<>>

\* the loops of lines 102-105 have not been entered
LoopVars == <<loop_i, loop_j, compared>>
LoopsIdle ==
    /\ loop_i = 0 /\ loop_j = 0 /\ compared = <<>>

Init ==
    /\ impl \in Impls
    /\ columns \in {InputColumns, InputColumns \ {"description"}}
    /\ input \in Tables(columns)
    /\ df = input
    /\ pc = "loaded"
    /\ error = ""
    /\ duplicate_summary = <<>>
    /\ exact_dupes = 0
    /\ sample_size = 0
    /\ non_dupes = <<>>
    /\ similarity_matrix = <<>>
    /\ similar_pairs = <<>>
    /\ df_final = EmptyOutput
    /\ PipelineIdle
    /\ LoopsIdle
    /\ runs = 1
    /\ CollectorsIdle

\* deduplication.py 55-63 / deduplicate_final.py 35-45: the three apply calls
\* run in order, each adding its column, then the key column is added.  An
\* exception raised by an apply ends the run with the columns added so far.
NormalizeFields ==
    /\ pc = "loaded"
    /\ LET n == Len(df)
           cn == apply(df, "company_name", impl, "normalize_company")
           tn == apply(df, "title", impl, "normalize_title")
           ln == apply(df, "location", impl, "normalize_location")
           cols1 == columns \cup {"company_norm"}
           df1 == SetColumn(df, columns, "company_norm", [k \in 1..n |-> cn[k].val])
           cols2 == cols1 \cup {"title_norm"}
           df2 == SetColumn(df1, cols1, "title_norm", [k \in 1..n |-> tn[k].val])
           cols3 == cols2 \cup {"location_norm"}
           df3 == SetColumn(df2, cols2, "location_norm", [k \in 1..n |-> ln[k].val])
           key == [k \in 1..n |-> composite_key(cn[k].val, tn[k].val, ln[k].val)]
           bad(r) == {k \in 1..n : ~r[k].ok}
           first(r) == CHOOSE k \in bad(r) : \A h \in bad(r) : k <= h
       IN  IF bad(cn) # {}
           THEN /\ pc' = "raised" /\ error' = cn[first(cn)].exc
                /\ UNCHANGED <<df, columns>>
           ELSE IF bad(tn) # {}
           THEN /\ pc' = "raised" /\ error' = tn[first(tn)].exc
                /\ df' = df1 /\ columns' = cols1
           ELSE IF bad(ln) # {}
           THEN /\ pc' = "raised" /\ error' = ln[first(ln)].exc
                /\ df' = df2 /\ columns' = cols2
           ELSE /\ pc' = "normalized" /\ error' = ""
                /\ df' = SetColumn(df3, cols3, "composite_key", key)
                /\ columns' = cols3 \cup {"composite_key"}
    /\ UNCHANGED <<impl, input, duplicate_summary, exact_dupes, sample_size,
                   non_dupes, similarity_matrix, similar_pairs, LoopVars,
                   df_final, runs, Collectors,
                   nz_fn, nz_in, nz_out>>

(***************************************************************************)
(* TF-IDF vectors and cosine similarity of the sampled descriptions        *)
(* (TfidfVectorizer(max_features=100, stop_words='english') and            *)
(* cosine_similarity).  Weights are integers: idf is kept in tenths, and a *)
(* similarity score is kept as the exact fraction num/den of its square.   *)
(***************************************************************************)
RECURSIVE TakeWord(_)
TakeWord(s) ==
    IF s # <<>> /\ IsWord(Head(s)) THEN <<Head(s)>> \o TakeWord(Tail(s)) ELSE <<>>

\* token_pattern (?u)\b\w\w+\b : the maximal runs of two or more word characters
RECURSIVE Tokenize(_)
Tokenize(s) ==
    IF s = <<>> THEN <<>>
    ELSE IF ~IsWord(Head(s)) THEN Tokenize(Tail(s))
    ELSE LET w == TakeWord(s)
             rest == SubSeq(s, Len(w) + 1, Len(s))
         IN  IF Len(w) >= 2 THEN <<w>> \o Tokenize(rest) ELSE Tokenize(rest)

\* the words of the 'english' stop list that occur in the descriptions
StopWords == { <<"t","h","e">>, <<"a","n","d">> }

\* the terms of one document: lower-cased tokens that are not stop words
Terms(text) ==
    LET toks == Tokenize(Lower(text))
        keep(w) == w \notin StopWords
    IN  SelectSeq(toks, keep)

\* 10 * (ln((1 + n) / (1 + d)) + 1) rounded, n documents, d of them holding the term
Idf10 ==
    << <<10>>,
       <<14, 10>>,
       <<17, 13, 10>>,
       <<19, 15, 12, 10>>,
       <<21, 17, 14, 12, 10>> >>

Count(t, doc) == Cardinality({k \in DOMAIN doc : doc[k] = t})
Vocabulary(docs) == UNION {Range(docs[k]) : k \in DOMAIN docs}
DocFreq(t, docs) == Cardinality({k \in DOMAIN docs : t \in Range(docs[k])})
Weight(t, k, docs) == Count(t, docs[k]) * Idf10[Len(docs)][DocFreq(t, docs)]

RECURSIVE SumOver(_, _, _, _)
SumOver(ts, a, b, docs) ==
    IF ts = {} THEN 0
    ELSE LET t == CHOOSE x \in ts : TRUE
         IN  Weight(t, a, docs) * Weight(t, b, docs) + SumOver(ts \ {t}, a, b, docs)

Dot(a, b, docs) == SumOver(Vocabulary(docs), a, b, docs)

\* the dot product of the vectors, squared, without the division by the norms
cosine_similarity_unnormalized(a, b, docs) ==
    [num |-> Dot(a, b, docs) * Dot(a, b, docs), den |-> 1]

\* similarity_matrix[a][b], squared; a zero vector gives 0
cosine_similarity(a, b, docs) ==
    LET den == Dot(a, a, docs) * Dot(b, b, docs)
    IN  IF den = 0 THEN [num |-> 0, den |-> 1]
        ELSE [num |-> Dot(a, b, docs) * Dot(a, b, docs), den |-> den]

\* similarity_matrix = cosine_similarity(tfidf_matrix): the scores of all pairs
SimilarityMatrix(docs) ==
    [a \in 1..Len(docs) |-> [b \in 1..Len(docs) |-> cosine_similarity(a, b, docs)]]

\* similarity_threshold = 0.85 = 17/20
similarity_threshold == [num |-> 17, den |-> 20]

\* score >= self.similarity_threshold
AboveThreshold_or_equal(score) ==
    score.num * similarity_threshold.den * similarity_threshold.den
        >= similarity_threshold.num * similarity_threshold.num * score.den

\* score > self.similarity_threshold
AboveThreshold(score) ==
    score.num * similarity_threshold.den * similarity_threshold.den
        > similarity_threshold.num * similarity_threshold.num * score.den

\* the loops of lines 102-105, from the pair (i, j) on; i and j count from 0
RECURSIVE PairsFrom(_, _, _)
PairsFrom(i, j, docs) ==
    IF i >= Len(docs) THEN <<>>
    ELSE IF j >= Len(docs) THEN PairsFrom(i + 1, i + 2, docs)
    ELSE LET score == cosine_similarity(i + 1, j + 1, docs)
         IN  IF AboveThreshold(score)
             THEN <<[i |-> i, j |-> j, score |-> score]>> \o PairsFrom(i, j + 1, docs)
             ELSE PairsFrom(i, j + 1, docs)

(***************************************************************************)
(* Stage 1: exact duplicates.                                              *)
(***************************************************************************)
\* df[df['is_duplicate']].groupby(keys).size(): rows with a missing source are
\* dropped by groupby
GroupSizes(table, byGroup) ==
    LET rows == {k \in 1..Len(table) :
                    table[k]["is_duplicate"] /\ ~table[k]["source"].na}
        keyOf(k) == IF byGroup
                    THEN <<table[k]["source"].str, table[k]["duplicate_group"]>>
                    ELSE <<table[k]["source"].str>>
    IN  [key \in {keyOf(k) : k \in rows} |->
            Cardinality({k \in rows : keyOf(k) = key})]

\* deduplication.py 65-76 / deduplicate_final.py 47-58
FindExactDuplicates ==
    /\ pc = "normalized"
    /\ LET n == Len(df)
           cols1 == columns \cup {"is_duplicate"}
           df1 == SetColumn(df, columns, "is_duplicate",
                            [k \in 1..n |-> duplicated_first(df, k)])
           cols2 == cols1 \cup {"duplicate_group"}
           df2 == SetColumn(df1, cols1, "duplicate_group",
                            [k \in 1..n |-> ngroup(df, k)])
       IN  IF impl = "JobDeduplicator"
           THEN /\ exact_dupes' = Cardinality({k \in 1..n : duplicated_any(df, k)})
                /\ df' = df2 /\ columns' = cols2
                /\ duplicate_summary' = GroupSizes(df2, TRUE)
           ELSE /\ df' = df1 /\ columns' = cols1
                /\ exact_dupes' = Cardinality({k \in 1..n : df1[k]["is_duplicate"]})
                /\ duplicate_summary' = GroupSizes(df1, FALSE)
    /\ pc' = "marked"
    /\ UNCHANGED <<impl, input, error, sample_size, non_dupes, similarity_matrix,
                   similar_pairs, LoopVars, df_final, runs, Collectors,
                   nz_fn, nz_in, nz_out>>

(***************************************************************************)
(* Stage 2: text similarity on a sample (JobDeduplicator only).            *)
(***************************************************************************)
DefaultSampleSize == 1000
SampleSizes == {0, 1, 2, DefaultSampleSize}

\* the requested size, not capped by the length of the table
Min_uncapped(a, b) == a

\* min(sample_size, len(df))
Min(a, b) == IF a < b THEN a ELSE b

\* the orderings of the n-element subsets of a set of positions
Samples(pop, n) ==
    {s \in [1..n -> pop] : \A a, b \in 1..n : a # b => s[a] # s[b]}

\* a text_similarity_check that flags the second row of every similar pair
text_similarity_check_merging(table, smp, pairs) ==
    [k \in 1..Len(table) |->
        [c \in DOMAIN table[k] |->
            IF c = "is_duplicate"
            THEN table[k][c] \/ \E q \in Range(pairs) : smp[q.j + 1] = k
            ELSE table[k][c]]]

\* `return df` of text_similarity_check (lines 88 and 112), assigned to
\* df_clean at line 117: the table it was given, whatever the pairs found
text_similarity_check_returns(table, smp, pairs) == table

\* deduplication.py 78-112, called at line 117.  DataFrame.sample raises
\* ValueError when asked for more rows than the frame has.
TextSimilarityCheck ==
    /\ pc = "marked"
    /\ impl = "JobDeduplicator"
    /\ \E size \in SampleSizes :
        LET pop == {k \in 1..Len(df) : ~df[k]["is_duplicate"]}
            n == Min(size, Len(df))
        IN  /\ sample_size' = size
            /\ IF n > Cardinality(pop)
               THEN /\ pc' = "raised" /\ error' = "ValueError"
                    /\ UNCHANGED <<df, non_dupes, similarity_matrix, similar_pairs>>
               ELSE \E s \in Samples(pop, n) :
                    /\ non_dupes' = s
                    /\ pc' = "checked" /\ error' = ""
                    /\ IF \/ "description" \notin columns
                          \/ \A k \in 1..n : df[s[k]]["description"].na
                       THEN /\ similarity_matrix' = <<>>
                            /\ similar_pairs' = <<>>
                       ELSE LET docs == [k \in 1..n |-> Terms(df[s[k]]["description"].str)]
                            IN  IF Vocabulary(docs) = {}
                                THEN /\ similarity_matrix' = <<>>   \* ValueError, caught at 109
                                     /\ similar_pairs' = <<>>
                                ELSE /\ similarity_matrix' = SimilarityMatrix(docs)
                                     /\ similar_pairs' = PairsFrom(0, 1, docs)
                    /\ df' = text_similarity_check_returns(df, s, similar_pairs')
    /\ UNCHANGED <<impl, input, columns, duplicate_summary, exact_dupes, LoopVars,
                   df_final, runs, Collectors,
                   nz_fn, nz_in, nz_out>>

(***************************************************************************)
(* Removing the duplicates.                                                *)
(***************************************************************************)
\* a drop that leaves the is_duplicate column in the table
DroppedColumns_without_flag == NormColumns

\* df_clean.drop(columns=[...]) of deduplicate_final.py, lines 64-65
DroppedColumns == NormColumns \cup {"is_duplicate"}

\* deduplication.py 119-120: df_final = df_clean[~df_clean['is_duplicate']]
\* deduplicate_final.py 60-68: the same selection, copied, without the
\* normalization columns and with job_id renumbered from 1
RemoveDuplicates ==
    /\ \/ impl = "JobDeduplicator" /\ pc = "checked"
       \/ impl = "deduplicate_final" /\ pc = "marked"
    /\ LET kept == SelectRows(df, [k \in 1..Len(df) |-> ~df[k]["is_duplicate"]], 1)
           cols == (columns \ DroppedColumns) \cup {"job_id"}
       IN  IF impl = "JobDeduplicator"
           THEN df_final' = [columns |-> columns, rows |-> kept]
           ELSE df_final' =
                  [columns |-> cols,
                   rows |-> [k \in 1..Len(kept) |->
                               [c \in cols |-> IF c = "job_id" THEN k ELSE kept[k][c]]]]
    /\ pc' = "done"
    /\ UNCHANGED <<impl, input, df, columns, error, duplicate_summary, exact_dupes,
                   sample_size, non_dupes, similarity_matrix, similar_pairs, LoopVars,
                   runs, Collectors,
                   nz_fn, nz_in, nz_out>>

Next ==
    \/ NormalizeFields
    \/ FindExactDuplicates
    \/ TextSimilarityCheck
    \/ RemoveDuplicates

Spec == Init /\ [][Next]_vars

(***************************************************************************)
(* The deduplication applied again to the table it has returned.           *)
(***************************************************************************)
MaxRuns == 2

\* the first run starts on a table of the postings that name a company
InitRerun ==
    /\ Init
    /\ columns = InputColumns
    /\ \A k \in 1..Len(input) : ~input[k]["company_name"].na

\* the usage lines of deduplication.py (115-120) / the steps of the script,
\* applied to df_final: the kept table is the table of a new run
RunAgain ==
    /\ pc = "done"
    /\ runs < MaxRuns
    /\ runs' = runs + 1
    /\ input' = df_final.rows
    /\ df' = df_final.rows
    /\ columns' = df_final.columns
    /\ pc' = "loaded"
    /\ duplicate_summary' = <<>>
    /\ exact_dupes' = 0
    /\ sample_size' = 0
    /\ non_dupes' = <<>>
    /\ similarity_matrix' = <<>>
    /\ similar_pairs' = <<>>
    /\ df_final' = EmptyOutput
    /\ UNCHANGED <<impl, error, LoopVars, Collectors, nz_fn, nz_in, nz_out>>

NextRerun ==
    \/ Next
    \/ RunAgain

SpecRerun == InitRerun /\ [][NextRerun]_vars

(***************************************************************************)
(* The run on tables whose fields are short and may hold, or be, the       *)
(* character '|' that composite_key joins its parts with.                  *)
(***************************************************************************)
SeparatorValues == {Missing, Str(<<"|">>), Str(<<"a">>)}

SeparatorPostings ==
    { Posting(c, t, l, Missing, Str(S_linkedin)) :
        c \in SeparatorValues, t \in SeparatorValues, l \in SeparatorValues }

\* a table of two such records
InitSeparator ==
    /\ impl \in Impls
    /\ columns = InputColumns
    /\ input \in { <<RowOf(p, 1, columns), RowOf(q, 2, columns)>> :
                      p \in SeparatorPostings, q \in SeparatorPostings }
    /\ df = input
    /\ pc = "loaded"
    /\ error = ""
    /\ duplicate_summary = <<>>
    /\ exact_dupes = 0
    /\ sample_size = 0
    /\ non_dupes = <<>>
    /\ similarity_matrix = <<>>
    /\ similar_pairs = <<>>
    /\ df_final = EmptyOutput
    /\ PipelineIdle
    /\ LoopsIdle
    /\ runs = 1
    /\ CollectorsIdle

SpecSeparator == InitSeparator /\ [][Next]_vars

(***************************************************************************)
(* The scripts around the deduplication script, for the Adzuna records:    *)
(*   fetch_adzuna_data.py -> clean_adzuna_data.py -> create_final_dataset  *)
(*   -> deduplicate_final.py -> add_missing_features.py                    *)
(*   -> final_data_preparation.py                                          *)
(* The table goes from one script to the next through a CSV file.  A       *)
(* nested value of the API response (a dict) is a raw value with a field   *)
(* display_name.                                                           *)
(***************************************************************************)
Dict(name, class) == [na |-> FALSE, display_name |-> name, class |-> class]
\* isinstance(x, dict)
IsDict(x) == "display_name" \in DOMAIN x

S_Acme == <<"A","c","m","e">>
S_Company == <<"A","d","z","u","n","a",":",":","C","o","m","p","a","n","y">>
S_Location == <<"A","d","z","u","n","a",":",":","L","o","c","a","t","i","o","n">>
S_AdzunaOct2025 == <<"A","d","z","u","n","a"," ","O","c","t"," ","2","0","2","5">>
S_display_name_key == <<"{","'","d","i","s","p","l","a","y","_","n","a","m","e","'",":"," ","'">>
S_class_key == <<"'",","," ","'","_","_","C","L","A","S","S","_","_","'",":"," ","'">>
S_dict_end == <<"'","}">>
S___CLASS__ == <<"_","_","C","L","A","S","S","_","_">>
S_Adzuna == <<"A","d","z","u","n","a">>

\* str(x) of a dict x, as to_csv writes it
StrOfDict(x) ==
    S_display_name_key \o x.display_name \o S_class_key \o x.class \o S_dict_end

\* to_csv followed by read_csv: a dict comes back as the string of the dict
CsvRoundTrip(x) == IF IsDict(x) THEN Str(StrOfDict(x)) ELSE x

\* sub in s
Contains(s, sub) ==
    \E p \in 1..(Len(s) - Len(sub) + 1) : SubSeq(s, p, p + Len(sub) - 1) = sub

\* the first position of sub in s from position p on, 0 when there is none
RECURSIVE Find(_, _, _)
Find(s, sub, p) ==
    IF p + Len(sub) - 1 > Len(s) THEN 0
    ELSE IF SubSeq(s, p, p + Len(sub) - 1) = sub THEN p
    ELSE Find(s, sub, p + 1)

\* ast.literal_eval(field_str).get('display_name') for the strings StrOfDict
\* writes; Raise for a string that is not the literal of such a dict
literal_eval_get(s) ==
    LET n == Len(S_display_name_key)
        q == Find(s, S_class_key, n + 1)
        e == Len(s) - Len(S_dict_end)
    IN  IF /\ Len(s) >= n + Len(S_dict_end) /\ SubSeq(s, 1, n) = S_display_name_key
           /\ q > 0
           /\ SubSeq(s, e + 1, Len(s)) = S_dict_end
           /\ ~Contains(SubSeq(s, n + 1, q - 1), <<"'">>)
           /\ ~Contains(SubSeq(s, q + Len(S_class_key), e), <<"'">>)
        THEN Ret(SubSeq(s, n + 1, q - 1))
        ELSE Raise("SyntaxError")

\* final_data_preparation.py, lines 19-33
parse_adzuna_field(field) ==
    IF field.na THEN Missing
    ELSE IF Contains(field.str, S___CLASS__) /\ Contains(field.str, S_Adzuna)
         THEN LET got == literal_eval_get(field.str)
              IN  IF got.ok THEN Str(got.val) ELSE field
         ELSE field

\* the value parse_adzuna_field decodes: a string with both markers
IsNested(field) ==
    /\ ~field.na
    /\ Contains(field.str, S___CLASS__) /\ Contains(field.str, S_Adzuna)

AdzunaColumns == {"title", "company", "location", "description"}

\* rows of the DataFrame built from the API results (fetch_adzuna_data.py 92)
AdzunaResults ==
    { [title |-> Str(S_data_analyst), company |-> Dict(S_Acme, S_Company),
       location |-> Dict(S_nyc, S_Location), description |-> Missing],
      [title |-> Str(S_data_analyst), company |-> Dict(S_acme, S_Company),
       location |-> Dict(S_nyc, S_Location), description |-> Str(S_sql_python)],
      [title |-> Str(S_DataAnalystII), company |-> Missing,
       location |-> Missing, description |-> Missing] }

\* rows of the other sources' cleaned files, their fields plain strings
OtherSourceRows ==
    { Posting(Str(S_acme), Str(S_data_analyst), Str(S_nyc), Missing, Str(S_linkedin)) }

\* fetch_adzuna_data.py has built df from the results; the other sources'
\* cleaned files (input) are on disk
InitAdzuna ==
    /\ impl = "deduplicate_final"
    /\ columns = AdzunaColumns
    /\ df \in UNION { [1..n -> AdzunaResults] : n \in 0..MaxRecords }
    /\ input \in {<<>>} \cup { <<RowOf(p, 1, InputColumns)>> : p \in OtherSourceRows }
    /\ pc = "fetched"
    /\ error = ""
    /\ duplicate_summary = <<>>
    /\ exact_dupes = 0
    /\ sample_size = 0
    /\ non_dupes = <<>>
    /\ similarity_matrix = <<>>
    /\ similar_pairs = <<>>
    /\ df_final = EmptyOutput
    /\ PipelineIdle
    /\ LoopsIdle
    /\ runs = 1
    /\ CollectorsIdle

AdzunaFixed == <<impl, input, error, duplicate_summary, exact_dupes, sample_size,
                 non_dupes, similarity_matrix, similar_pairs, LoopVars, df_final,
                 runs, Collectors,
                   nz_fn, nz_in, nz_out>>

\* fetch_adzuna_data.py 103 and clean_adzuna_data.py 4: the table is written
\* to adzuna_raw.csv and read back
SaveAndLoadRaw ==
    /\ pc = "fetched"
    /\ df' = [k \in 1..Len(df) |-> [c \in AdzunaColumns |-> CsvRoundTrip(df[k][c])]]
    /\ pc' = "adzuna_raw"
    /\ UNCHANGED <<columns, AdzunaFixed>>

\* clean_adzuna_data.py 24-25 and 45-59: location_clean and company_clean,
\* then the unified schema
CleanAdzuna ==
    /\ pc = "adzuna_raw"
    /\ LET clean(x) == IF IsDict(x) THEN Str(x.display_name) ELSE x
       IN  df' = [k \in 1..Len(df) |->
                    [c \in InputColumns |->
                        CASE c = "job_id" -> k
                          [] c = "title" -> df[k]["title"]
                          [] c = "company_name" -> clean(df[k]["company"])
                          [] c = "location" -> clean(df[k]["location"])
                          [] c = "description" -> df[k]["description"]
                          [] c = "source" -> Str(S_AdzunaOct2025)]]
    /\ columns' = InputColumns
    /\ pc' = "adzuna_cleaned"
    /\ UNCHANGED AdzunaFixed

\* create_final_dataset.py 26-41 and deduplicate_final.py 9: the sources are
\* concatenated, Adzuna first, job_id is range(1, len + 1), and the table is
\* written to jobs_all_combined.csv and read back
CreateFinalDataset ==
    /\ pc = "adzuna_cleaned"
    /\ LET df_all == df \o input
       IN  df' = [k \in 1..Len(df_all) |->
                    [c \in InputColumns |->
                        IF c = "job_id" THEN k ELSE CsvRoundTrip(df_all[k][c])]]
    /\ pc' = "loaded"
    /\ UNCHANGED <<columns, AdzunaFixed>>

\* add_missing_features.py 37-51: reads jobs_final_deduplicated.csv and writes
\* jobs_final_complete.csv with the fields of the model as they are
AddMissingFeatures ==
    /\ pc = "done"
    /\ df' = df_final.rows
    /\ columns' = df_final.columns
    /\ pc' = "complete"
    /\ UNCHANGED AdzunaFixed

\* final_data_preparation.py 11-36
FinalDataPreparation ==
    /\ pc = "complete"
    /\ df' = [k \in 1..Len(df) |->
                [c \in columns |->
                    IF c \in {"company_name", "location"}
                    THEN parse_adzuna_field(df[k][c]) ELSE df[k][c]]]
    /\ pc' = "prepared"
    /\ UNCHANGED <<columns, AdzunaFixed>>

NextAdzuna ==
    \/ SaveAndLoadRaw
    \/ CleanAdzuna
    \/ CreateFinalDataset
    \/ NormalizeFields
    \/ FindExactDuplicates
    \/ RemoveDuplicates
    \/ AddMissingFeatures
    \/ FinalDataPreparation

SpecAdzuna == InitAdzuna /\ [][NextAdzuna]_vars

(***************************************************************************)
(* The normalizers on their own: one of them is called on a raw value,     *)
(* then on its own result.                                                 *)
(***************************************************************************)
NormChars == {" ", ".", "c", "o", "i", "I", "l", "a", "f"}

RECURSIVE StringsUpTo(_)
StringsUpTo(n) ==
    IF n = 0 THEN {<<>>}
    ELSE LET shorter == StringsUpTo(n - 1)
         IN  shorter \cup {Append(s, c) : s \in shorter, c \in NormChars}

InitNormalizer ==
    /\ impl \in Impls
    /\ nz_fn \in Normalizers
    /\ nz_in \in {Missing} \cup {Str(s) : s \in StringsUpTo(MaxStrLen)}
    /\ nz_out = <<>>
    /\ pc = "idle" /\ input = <<>> /\ df = <<>> /\ columns = {} /\ error = ""
    /\ duplicate_summary = <<>> /\ exact_dupes = 0 /\ sample_size = 0
    /\ non_dupes = <<>> /\ similarity_matrix = <<>> /\ similar_pairs = <<>>
    /\ df_final = EmptyOutput
    /\ LoopsIdle
    /\ runs = 1
    /\ CollectorsIdle

PipelineVars == <<pc, input, df, columns, error, duplicate_summary, exact_dupes,
                  sample_size, non_dupes, similarity_matrix, similar_pairs, LoopVars,
                  df_final>>

\* normalize_X(s)
Normalize ==
    /\ nz_out = <<>>
    /\ nz_out' = <<CallNormalizer(impl, nz_fn, nz_in)>>
    /\ UNCHANGED <<impl, runs, Collectors,
                   nz_fn, nz_in, PipelineVars>>

\* normalize_X(normalize_X(s)), once the first call has returned
NormalizeAgain ==
    /\ Len(nz_out) = 1
    /\ nz_out[1].ok
    /\ nz_out' = Append(nz_out, CallNormalizer(impl, nz_fn, Str(nz_out[1].val)))
    /\ UNCHANGED <<impl, runs, Collectors,
                   nz_fn, nz_in, PipelineVars>>

NextNormalizer == Normalize \/ NormalizeAgain

SpecNormalizer == InitNormalizer /\ [][NextNormalizer]_vars

(***************************************************************************)
(* The pair loops of text_similarity_check on their own (lines 100-107):   *)
(* given a similarity matrix, they read it one pair at a time.             *)
(***************************************************************************)
\* a score equal to the threshold (scores are kept squared)
ThresholdScore ==
    [num |-> similarity_threshold.num * similarity_threshold.num,
     den |-> similarity_threshold.den * similarity_threshold.den]

\* the scores a matrix is filled with: 0, the threshold itself, 0.9 squared, 1
Scores ==
    { [num |-> 0, den |-> 1], ThresholdScore, [num |-> 81, den |-> 100],
      [num |-> 1, den |-> 1] }

\* the symmetric n x n matrices over Scores with 1 on the diagonal
Matrices(n) ==
    LET above == {p \in (1..n) \X (1..n) : p[1] < p[2]}
    IN  { [a \in 1..n |-> [b \in 1..n |->
              IF a = b THEN [num |-> 1, den |-> 1]
              ELSE IF a < b THEN up[<<a, b>>] ELSE up[<<b, a>>]]]
          : up \in [above -> Scores] }

\* line 101 has run: similar_pairs = [], the loop at line 102 is about to start
InitScorer ==
    /\ impl = "JobDeduplicator"
    /\ similarity_matrix \in UNION {Matrices(n) : n \in 0..MaxSample}
    /\ similar_pairs = <<>>
    /\ pc = "for_i"
    /\ LoopsIdle
    /\ runs = 1
    /\ CollectorsIdle
    /\ input = <<>> /\ df = <<>> /\ columns = {} /\ error = ""
    /\ duplicate_summary = <<>> /\ exact_dupes = 0 /\ sample_size = 0
    /\ non_dupes = <<>> /\ df_final = EmptyOutput
    /\ PipelineIdle

ScorerFixed == <<impl, input, df, columns, error, duplicate_summary, exact_dupes,
                 sample_size, non_dupes, similarity_matrix, df_final,
                 runs, Collectors,
                   nz_fn, nz_in, nz_out>>

\* a loop over j that starts at i itself
InnerStart_at_i(i) == i

\* range(i + 1, len(similarity_matrix)): the first j of the loop at line 103
InnerStart(i) == i + 1

\* line 102: for i in range(len(similarity_matrix)) takes its next i
OuterNext ==
    /\ pc = "for_i"
    /\ loop_i < Len(similarity_matrix)
    /\ pc' = "for_j"
    /\ loop_j' = InnerStart(loop_i)
    /\ UNCHANGED <<loop_i, compared, similar_pairs, ScorerFixed>>

\* lines 104-105: the body of the loop at line 103 for its next j
InnerBody ==
    /\ pc = "for_j"
    /\ loop_j < Len(similarity_matrix)
    /\ compared' = Append(compared, <<loop_i, loop_j>>)
    /\ LET score == similarity_matrix[loop_i + 1][loop_j + 1]
       IN  similar_pairs' =
              IF AboveThreshold(score)
              THEN Append(similar_pairs, [i |-> loop_i, j |-> loop_j, score |-> score])
              ELSE similar_pairs
    /\ loop_j' = loop_j + 1
    /\ UNCHANGED <<pc, loop_i, ScorerFixed>>

\* line 103: range(i + 1, len(similarity_matrix)) is exhausted
InnerEnd ==
    /\ pc = "for_j"
    /\ loop_j >= Len(similarity_matrix)
    /\ pc' = "for_i"
    /\ loop_i' = loop_i + 1
    /\ UNCHANGED <<loop_j, compared, similar_pairs, ScorerFixed>>

\* line 102: range(len(similarity_matrix)) is exhausted; line 107 prints
OuterEnd ==
    /\ pc = "for_i"
    /\ loop_i >= Len(similarity_matrix)
    /\ pc' = "scored"
    /\ UNCHANGED <<loop_i, loop_j, compared, similar_pairs, ScorerFixed>>

NextScorer == OuterNext \/ InnerBody \/ InnerEnd \/ OuterEnd

SpecScorer == InitScorer /\ [][NextScorer]_vars

(***************************************************************************)
(* The collectors run on their own: no table is being deduplicated.        *)
(***************************************************************************)
DedupVars == <<impl, PipelineVars, nz_fn, nz_in, nz_out, runs>>
DedupNotRun ==
    /\ impl = "deduplicate_final"
    /\ pc = "not run"
    /\ input = <<>> /\ df = <<>> /\ columns = {} /\ error = ""
    /\ duplicate_summary = <<>> /\ exact_dupes = 0 /\ sample_size = 0
    /\ non_dupes = <<>> /\ similarity_matrix = <<>> /\ similar_pairs = <<>>
    /\ df_final = EmptyOutput
    /\ PipelineIdle
    /\ loop_i = 0 /\ loop_j = 0 /\ compared = <<>>
    /\ runs = 1

\* Python's None and ints, and the truth value of such a value
None == [none |-> TRUE, int |-> 0]
IntValue(n) == [none |-> FALSE, int |-> n]
Truthy(x) == ~x.none /\ x.int # 0

(***************************************************************************)
(* collect_jobs of collect_linkedin_rapidapi.py.  A step is one pass of    *)
(* the while loop, or the lines between two while loops.  What search_jobs *)
(* returns is the environment's choice: None (a failed request), a result  *)
(* without jobs, or a result with jobs.                                    *)
(***************************************************************************)
MaxRequests == 2                     \* largest integer max_requests
NumQueries == 3                      \* len(SEARCH_QUERIES)
NumLocations == 1                    \* len(LOCATIONS)
PageLimit == 100                     \* limit
OffsetCap == 500                     \* offset >= 500
SearchResults == {"None", "no jobs", "jobs"}

\* max_requests and request_count >= max_requests (lines 127, 168, 171)
LimitReached(max_requests, request_count) ==
    Truthy(max_requests) /\ request_count >= max_requests.int

\* lines 108-126: collect_jobs(max_requests) has entered the first while loop
InitLinkedIn ==
    /\ DedupNotRun
    /\ indeed = NotCalled /\ usajobs = NotCalled
    /\ \E m \in {None} \cup {IntValue(n) : n \in 0..MaxRequests} :
          linkedin = [pc |-> "while", max_requests |-> m, request_count |-> 0,
                      query |-> 1, location |-> 1, offset |-> 0, all_jobs |-> <<>>]

\* lines 127-129: the limit is reached, break
StopAtLimit ==
    /\ linkedin.pc = "while"
    /\ LimitReached(linkedin.max_requests, linkedin.request_count)
    /\ linkedin' = [linkedin EXCEPT !.pc = "after while"]
    /\ UNCHANGED <<DedupVars, indeed, usajobs>>

\* lines 131-166: one call of search_jobs and what the loop does with it
SearchStep ==
    /\ linkedin.pc = "while"
    /\ ~LimitReached(linkedin.max_requests, linkedin.request_count)
    /\ \E result \in SearchResults :
          LET count == linkedin.request_count + 1
              next_offset == linkedin.offset + PageLimit
          IN  IF result \in {"None", "no jobs"}
              THEN linkedin' = [linkedin EXCEPT !.request_count = count,
                                                !.pc = "after while"]
              ELSE linkedin' =
                     [linkedin EXCEPT
                        !.request_count = count,
                        !.all_jobs = Append(@, [query |-> linkedin.query,
                                                offset |-> linkedin.offset]),
                        !.offset = next_offset,
                        !.pc = IF next_offset >= OffsetCap THEN "after while"
                               ELSE "while"]
    /\ UNCHANGED <<DedupVars, indeed, usajobs>>

\* lines 168-172 and the two for statements: the breaks at the limit, or the
\* next location, or the next query, or the return at line 180
NextSearch ==
    /\ linkedin.pc = "after while"
    /\ IF LimitReached(linkedin.max_requests, linkedin.request_count)
       THEN linkedin' = [linkedin EXCEPT !.pc = "returned"]
       ELSE IF linkedin.location < NumLocations
       THEN linkedin' = [linkedin EXCEPT !.location = @ + 1, !.offset = 0,
                                         !.pc = "while"]
       ELSE IF linkedin.query < NumQueries
       THEN linkedin' = [linkedin EXCEPT !.query = @ + 1, !.location = 1,
                                         !.offset = 0, !.pc = "while"]
       ELSE linkedin' = [linkedin EXCEPT !.pc = "returned"]
    /\ UNCHANGED <<DedupVars, indeed, usajobs>>

NextLinkedIn ==
    \/ StopAtLimit
    \/ SearchStep
    \/ NextSearch

SpecLinkedIn == InitLinkedIn /\ [][NextLinkedIn]_vars

(***************************************************************************)
(* IndeedScraper.search_jobs of indeed_scraper.py.  A step is one pass of  *)
(* the for loop.  log is the history of what the scraper has done on the   *)
(* network and the clock, in order: <<"request", page>> for requests.get,  *)
(* <<"delay", wait_time>> for a call of _delay.  What requests.get does is *)
(* the environment's choice.                                               *)
(***************************************************************************)
MaxPages == 3                        \* largest max_pages
DelayMin == 3                        \* delay_min
DelayMax == 7                        \* delay_max
PageOutcomes == {"200 jobs", "200 no jobs", "429", "other status", "exception"}

\* range(max_pages) gives a page for this position of the loop
InRange(page, max_pages) == page < max_pages

\* random.uniform(delay_min, delay_max), on the whole seconds
WaitTimes(delay_min, delay_max) == delay_min..delay_max

\* lines 16-62: IndeedScraper() and search_jobs(max_pages) at the for loop
InitIndeed ==
    /\ DedupNotRun
    /\ linkedin = NotCalled /\ usajobs = NotCalled
    /\ \E m \in 0..MaxPages :
          indeed = [pc |-> "for", max_pages |-> m, page |-> 0,
                    delay_min |-> DelayMin, delay_max |-> DelayMax,
                    jobs |-> <<>>, log |-> <<>>]

\* lines 63-115: one pass of the loop
ScrapePage ==
    /\ indeed.pc = "for"
    /\ InRange(indeed.page, indeed.max_pages)
    /\ \E outcome \in PageOutcomes :
          LET requested == Append(indeed.log, <<"request", indeed.page>>)
          IN  CASE outcome \in {"429", "200 no jobs"} ->        \* break
                     indeed' = [indeed EXCEPT !.log = requested, !.pc = "after for"]
                [] outcome \in {"other status", "exception"} -> \* continue
                     indeed' = [indeed EXCEPT !.log = requested, !.page = @ + 1]
                [] outcome = "200 jobs" ->
                     IF indeed.page < indeed.max_pages - 1
                     THEN \E wait_time \in WaitTimes(indeed.delay_min, indeed.delay_max) :
                            indeed' = [indeed EXCEPT
                                         !.log = Append(requested, <<"delay", wait_time>>),
                                         !.jobs = Append(@, indeed.page),
                                         !.page = @ + 1]
                     ELSE indeed' = [indeed EXCEPT !.log = requested,
                                                   !.jobs = Append(@, indeed.page),
                                                   !.page = @ + 1]
    /\ UNCHANGED <<DedupVars, linkedin, usajobs>>

\* lines 117-120: the loop has ended, return self.jobs
ScrapeReturn ==
    /\ \/ indeed.pc = "after for"
       \/ indeed.pc = "for" /\ ~InRange(indeed.page, indeed.max_pages)
    /\ indeed' = [indeed EXCEPT !.pc = "returned"]
    /\ UNCHANGED <<DedupVars, linkedin, usajobs>>

NextIndeed ==
    \/ ScrapePage
    \/ ScrapeReturn

SpecIndeed == InitIndeed /\ [][NextIndeed]_vars

(***************************************************************************)
(* USAJobsCollector.search_jobs of usajobs_collector.py.  A step is one    *)
(* pass of the while loop.  requested is the history of the Page           *)
(* parameters sent, received the history of the jobs the server has        *)
(* delivered.  What the server answers is the environment's choice: a      *)
(* status other than 200, an exception of requests.get or response.json,   *)
(* or a page of items with a SearchResultCount, which may be a value that  *)
(* line 76 cannot compare with a length.                                   *)
(***************************************************************************)
PageSizes == 0..2                    \* len(SearchResultItems) of a response
ResultCounts == {0, 3, 100}          \* SearchResultCount of a response
Failures == {"non-200", "exception"}
Responses ==
    [status : Failures, items : {0}, count : {0}]
        \cup [status : {"200"}, items : PageSizes, count : ResultCounts]
        \cup [status : {"200, count not a number"}, items : PageSizes, count : {0}]

\* a loop that asks for one page more than max_pages
WhileGuard_one_more(page, max_pages) == page <= max_pages + 1

\* while page <= max_pages (line 39)
WhileGuard(page, max_pages) == page <= max_pages

\* lines 30-38: search_jobs(max_pages) at the while loop
InitUSAJobs ==
    /\ DedupNotRun
    /\ linkedin = NotCalled /\ indeed = NotCalled
    /\ \E m \in 0..MaxPages :
          usajobs = [pc |-> "while", max_pages |-> m, page |-> 1, all_jobs |-> <<>>,
                     requested |-> <<>>, received |-> <<>>, last |-> "none"]

\* lines 39-87: one pass of the loop
FetchPage ==
    /\ usajobs.pc = "while"
    /\ WhileGuard(usajobs.page, usajobs.max_pages)
    /\ \E response \in Responses :
          LET asked == Append(usajobs.requested, usajobs.page)
          IN  IF response.status \in Failures                   \* break at 58 or 87
              THEN usajobs' = [usajobs EXCEPT !.requested = asked,
                                              !.last = response.status,
                                              !.pc = "after while"]
              ELSE IF response.items = 0                         \* break at 68
              THEN usajobs' = [usajobs EXCEPT !.requested = asked, !.last = "no jobs",
                                              !.pc = "after while"]
              ELSE LET jobs == [k \in 1..response.items |-> <<usajobs.page, k>>]
                       all == usajobs.all_jobs \o jobs
                   IN  IF response.status # "200"                 \* TypeError at 76, break at 87
                       THEN usajobs' = [usajobs EXCEPT
                                          !.requested = asked, !.last = "exception",
                                          !.received = @ \o jobs, !.all_jobs = all,
                                          !.pc = "after while"]
                       ELSE IF Len(all) >= response.count         \* break at 78
                       THEN usajobs' = [usajobs EXCEPT
                                          !.requested = asked, !.last = "end",
                                          !.received = @ \o jobs, !.all_jobs = all,
                                          !.pc = "after while"]
                       ELSE usajobs' = [usajobs EXCEPT
                                          !.requested = asked, !.last = "more",
                                          !.received = @ \o jobs, !.all_jobs = all,
                                          !.page = @ + 1]
    /\ UNCHANGED <<DedupVars, linkedin, indeed>>

\* lines 89-92: the loop has ended, return all_jobs
CollectReturn ==
    /\ \/ usajobs.pc = "after while"
       \/ usajobs.pc = "while" /\ ~WhileGuard(usajobs.page, usajobs.max_pages)
    /\ usajobs' = [usajobs EXCEPT !.pc = "returned"]
    /\ UNCHANGED <<DedupVars, linkedin, indeed>>

NextUSAJobs ==
    \/ FetchPage
    \/ CollectReturn

SpecUSAJobs == InitUSAJobs /\ [][NextUSAJobs]_vars

\* the interpreter keeps running the function: a pass that can be taken
\* is taken (requests.get has a timeout)
FairSpecUSAJobs == SpecUSAJobs /\ WF_vars(NextUSAJobs)

(***************************************************************************)
(* Properties of Stage 1 and Stage 2.                                      *)
(***************************************************************************)
\* Stage 1 has marked the rows
Stage1Done == pc \in {"marked", "checked", "done"} \/ (pc = "raised" /\ "is_duplicate" \in columns)
\* the run has computed the composite keys
Keyed == "composite_key" \in columns

Rows == 1..Len(df)
Key(k) == df[k]["composite_key"]
IsDup(k) == df[k]["is_duplicate"]

\* a row without the columns the run adds or renumbers
Passthrough(row) == [c \in (DOMAIN row) \cap (InputColumns \ {"job_id"}) |-> row[c]]

\* C1: once Stage 1 has run, every input record is still in the table with
\* exactly one boolean is_duplicate flag, and the deduplicated output holds
\* exactly the records flagged False: for every posting, as many output rows as
\* unflagged input rows, so len(kept) + len(duplicates) = N.
C1_ExactMatchCompleteness ==
    /\ Stage1Done =>
          /\ Len(df) = Len(input)
          /\ \A k \in Rows : /\ IsDup(k) \in BOOLEAN
                             /\ \A c \in DOMAIN input[k] : df[k][c] = input[k][c]
    /\ pc = "done" =>
          /\ Len(df_final.rows) + Cardinality({k \in Rows : IsDup(k)}) = Len(input)
          /\ \A p \in {Passthrough(input[k]) : k \in Rows} :
                Cardinality({h \in 1..Len(df_final.rows) :
                                Passthrough(df_final.rows[h]) = p})
                  = Cardinality({k \in Rows : ~IsDup(k) /\ Passthrough(input[k]) = p})

C1_Witness ==
    /\ pc = "done"
    /\ Len(input) = 3
    /\ Len(df_final.rows) = 2

\* C2: of two rows i < j with the same composite key, the later one is flagged
\* duplicate; an unflagged row is the earliest row of its key.
C2_FirstSeenSurvivor ==
    Stage1Done =>
        /\ \A i, j \in Rows : i < j /\ Key(i) = Key(j) => IsDup(j)
        /\ \A k \in Rows : ~IsDup(k) => \A h \in Rows : Key(h) = Key(k) => k <= h

C2_Witness ==
    /\ Stage1Done
    /\ \E i, j \in Rows : /\ i < j /\ Key(i) = Key(j) /\ ~IsDup(i) /\ IsDup(j)
                          /\ input[i]["company_name"] # input[j]["company_name"]

\* C3: every composite key of the table has exactly one unflagged row.
C3_OneSurvivorPerKey ==
    Stage1Done =>
        \A k \in Rows : Cardinality({h \in Rows : Key(h) = Key(k) /\ ~IsDup(h)}) = 1

C3_Witness ==
    /\ Stage1Done
    /\ \E i, j, k \in Rows : /\ i < j /\ j < k
                             /\ Key(i) = Key(j) /\ Key(j) = Key(k)

\* C4: rows carry the same duplicate_group exactly when their composite keys
\* are equal; rows whose company_norm differ while title and location are the
\* same have different keys, are in different groups, and the later one is
\* not flagged on account of the earlier one.
C4_KeyEqualityGroups ==
    Stage1Done =>
        \A i, j \in Rows :
            /\ "duplicate_group" \in columns =>
                  ((df[i]["duplicate_group"] = df[j]["duplicate_group"]) <=> (Key(i) = Key(j)))
            /\ ( /\ df[i]["company_norm"] # df[j]["company_norm"]
                 /\ df[i]["title"] = df[j]["title"]
                 /\ df[i]["location"] = df[j]["location"] )
               => /\ Key(i) # Key(j)
                  /\ "duplicate_group" \in columns =>
                        df[i]["duplicate_group"] # df[j]["duplicate_group"]
                  /\ (i < j /\ \A h \in 1..(j - 1) : h # i => Key(h) # Key(j)) => ~IsDup(j)

C4_Witness ==
    /\ Stage1Done
    /\ \E i, j \in Rows :
          /\ i < j
          /\ df[i]["company_norm"] = S_acme
          /\ df[j]["company_norm"] = <<"b","e","t","a">>
          /\ df[i]["title"] = df[j]["title"]
          /\ df[i]["location"] = df[j]["location"]
          /\ ~IsDup(i) /\ ~IsDup(j)

\* C5: rows that agree on the raw company_name, title and location carry the
\* same composite key, whatever their description, source and position.
C5_KeyDeterminism ==
    Keyed =>
        \A i, j \in Rows :
            ( /\ df[i]["company_name"] = df[j]["company_name"]
              /\ df[i]["title"] = df[j]["title"]
              /\ df[i]["location"] = df[j]["location"] )
            => Key(i) = Key(j)

C5_Witness ==
    /\ Keyed
    /\ \E i, j \in Rows :
          /\ i # j
          /\ df[i]["company_name"] = df[j]["company_name"]
          /\ df[i]["title"] = df[j]["title"]
          /\ df[i]["location"] = df[j]["location"]
          /\ df[i]["source"] # df[j]["source"]
          /\ "description" \in columns /\ df[i]["description"] # df[j]["description"]

\* C6: for every string s and each normalizer, the call on the result of the
\* call on s returns that same result.
C6_NormalizationIdempotent ==
    (Len(nz_out) = 2 /\ ~nz_in.na) => nz_out[2].ok /\ nz_out[2].val = nz_out[1].val

\* C7: an input made of the posting {Acme Inc., Data Analyst II, New York, NY}
\* and the posting {acme, data analyst, nyc}, from different sources, gets one
\* composite key for both rows and keeps exactly one of them.
ScenarioInput ==
    /\ Len(input) = 2
    /\ Passthrough(input[1]) \in {Passthrough(r) : r \in
          {Posting(Str(S_AcmeInc), Str(S_DataAnalystII), Str(S_NewYorkNY),
                   Str(S_sql_python), Str(S_linkedin))}}
    /\ Passthrough(input[2]) \in {Passthrough(r) : r \in
          {Posting(Str(S_acme), Str(S_data_analyst), Str(S_nyc),
                   Str(S_excel_sql), Str(S_adzuna))}}
    /\ "description" \in DOMAIN input[1]

C7_ScenarioExactDedup ==
    ScenarioInput =>
        /\ Keyed => Key(1) = Key(2)
        /\ Stage1Done => Cardinality({k \in Rows : ~IsDup(k)}) = 1

\* C8: normalization and keying never end in an error.
C8_NormalizationNeverRaises ==
    ~(pc = "raised" /\ ~Keyed)

\* C9: a missing company_name, title or location is normalized to the empty
\* string; a run is never ended by a missing field, and a row lacking a field
\* gets a composite key and a boolean is_duplicate flag like any other row.
C9_MissingFieldsNotErrors ==
    /\ \A k \in Rows :
          /\ ("company_norm" \in columns /\ df[k]["company_name"].na)
                => df[k]["company_norm"] = <<>>
          /\ ("title_norm" \in columns /\ df[k]["title"].na)
                => df[k]["title_norm"] = <<>>
          /\ ("location_norm" \in columns /\ df[k]["location"].na)
                => df[k]["location_norm"] = <<>>
    /\ (pc = "raised" /\ ~Keyed) => \E k \in Rows : ~df[k]["title"].na
    /\ (\A k \in Rows : df[k]["title"].na) => pc # "raised" \/ Keyed
    /\ Stage1Done => \A k \in Rows : Key(k) \in Seq(Range(CodeOrder)) /\ IsDup(k) \in BOOLEAN

C9_Witness ==
    /\ Stage1Done
    /\ \E i, j \in Rows :
          /\ df[i]["title"].na /\ df[i]["company_name"].na /\ df[i]["location"].na
          /\ Key(i) = <<"|", "|">>
          /\ i < j /\ Key(j) = Key(i) /\ IsDup(j) /\ ~IsDup(i)

\* C10: the step of text_similarity_check leaves the table as it was, every
\* is_duplicate flag included, and the output built afterwards holds every row
\* that Stage 1 left unflagged.
C10_Stage2Advisory ==
    [][ /\ (pc = "marked" /\ impl = "JobDeduplicator") =>
              /\ Len(df') = Len(df)
              /\ \A k \in Rows : df'[k]["is_duplicate"] = df[k]["is_duplicate"]
        /\ (pc = "checked" /\ pc' = "done") =>
              /\ Len(df_final'.rows) = Cardinality({k \in Rows : ~IsDup(k)})
              /\ \A k \in Rows : ~IsDup(k) => df[k] \in Range(df_final'.rows) ]_vars

C10_Witness ==
    /\ pc = "done"
    /\ impl = "JobDeduplicator"
    /\ \E q \in Range(similar_pairs) :
          /\ df[non_dupes[q.i + 1]] \in Range(df_final.rows)
          /\ df[non_dupes[q.j + 1]] \in Range(df_final.rows)

(***************************************************************************)
(* Properties of the sample, the per-source report and the pair scores.    *)
(***************************************************************************)
\* positions of the rows Stage 1 left unflagged
Kept == {k \in Rows : ~IsDup(k)}
\* text_similarity_check has been called and has returned or raised
Stage2Called == impl = "JobDeduplicator" /\ "is_duplicate" \in columns /\ pc # "marked"

\* C11: whenever text_similarity_check is called, drawing the sample does not
\* fail, and the sample is made of min(sample_size, len(kept)) distinct
\* unflagged rows: all of them when len(kept) <= sample_size.
C11_BoundedSampleOfSurvivors ==
    Stage2Called =>
        /\ pc # "raised"
        /\ Len(non_dupes) = Min(sample_size, Cardinality(Kept))
        /\ \A a \in DOMAIN non_dupes : non_dupes[a] \in Kept
        /\ \A a, b \in DOMAIN non_dupes : a # b => non_dupes[a] # non_dupes[b]
        /\ Cardinality(Kept) <= sample_size => Range(non_dupes) = Kept

\* C12: a run on an input of zero records never ends in an error and can
\* always go on until it is done; it counts zero duplicates, reports no source,
\* finds no similar pair and its output has no row.
C12_EmptyCorpus ==
    Len(input) = 0 =>
        /\ pc # "raised" /\ error = ""
        /\ pc # "done" => ENABLED Next
        /\ Len(df) = 0
        /\ exact_dupes = 0
        /\ DOMAIN duplicate_summary = {}
        /\ non_dupes = <<>> /\ similar_pairs = <<>>
        /\ df_final.rows = <<>>

C12_Witness ==
    /\ Len(input) = 0
    /\ pc = "done"
    /\ impl = "JobDeduplicator"
    /\ sample_size = DefaultSampleSize
    /\ "is_duplicate" \in df_final.columns

\* C13: a call of text_similarity_check on a table without description column,
\* or whose sample is empty or holds only missing or empty descriptions, does
\* not raise, computes no similarity matrix, finds no pair and returns the
\* table it was given.
C13_DegenerateStage2 ==
    [][ (pc = "marked" /\ impl = "JobDeduplicator" /\ pc' # "marked") =>
          LET sampled == {df[non_dupes'[a]] : a \in DOMAIN non_dupes'}
              degenerate ==
                  \/ "description" \notin columns
                  \/ /\ pc' = "checked"
                     /\ \A r \in sampled :
                           r["description"].na \/ r["description"].str = <<>>
          IN  degenerate =>
                  /\ pc' # "raised"
                  /\ similarity_matrix' = <<>> /\ similar_pairs' = <<>>
                  /\ df' = df ]_vars

\* C14: a run on an input holding a record without source never marks the
\* records as kept or duplicate, never builds the per-source report and never
\* writes an output table.
C14_MissingSourceRejected ==
    (\E k \in 1..Len(input) : input[k]["source"].na) =>
        /\ ~Stage1Done
        /\ df_final = EmptyOutput

\* the sum of the counts of a report
RECURSIVE SumOfSizes(_)
SumOfSizes(report) ==
    IF DOMAIN report = {} THEN 0
    ELSE LET key == CHOOSE x \in DOMAIN report : TRUE
         IN  report[key] + SumOfSizes([x \in (DOMAIN report) \ {key} |-> report[x]])

\* the lines of the report that stand under one source
UnderSource(src) ==
    [key \in {x \in DOMAIN duplicate_summary : x[1] = src} |-> duplicate_summary[key]]

\* C15: once Stage 1 has run, the counts reported under a source add up to the
\* number of flagged records of that source, and the counts of the whole report
\* add up to the number of flagged records.
C15_PerSourceCountsComplete ==
    Stage1Done =>
        /\ \A k \in Rows :
              IsDup(k) =>
                 SumOfSizes(UnderSource(df[k]["source"].str))
                    = Cardinality({h \in Rows : IsDup(h) /\ df[h]["source"] = df[k]["source"]})
        /\ SumOfSizes(duplicate_summary) = Cardinality({k \in Rows : IsDup(k)})

\* the index pairs (i, j) with 0 <= i < j < M of a sample of M records
IndexPairs ==
    {p \in (0..(Len(similarity_matrix) - 1)) \X (0..(Len(similarity_matrix) - 1)) :
        p[1] < p[2]}

\* C16: the loops read only pairs (i, j) with 0 <= i < j < M, never one pair
\* twice, and when they end they have read every such pair: M * (M - 1) / 2
\* reads.
C16_EachPairScoredOnce ==
    /\ \A a \in DOMAIN compared : compared[a] \in IndexPairs
    /\ \A a, b \in DOMAIN compared : a # b => compared[a] # compared[b]
    /\ pc = "scored" =>
          /\ Range(compared) = IndexPairs
          /\ 2 * Len(compared) = Len(similarity_matrix) * (Len(similarity_matrix) - 1)

C16_Witness ==
    /\ pc = "scored"
    /\ Len(similarity_matrix) = MaxSample
    /\ Len(compared) >= 3

\* the entry of the matrix for the index pair p
ScoreOf(p) == similarity_matrix[p[1] + 1][p[2] + 1]
\* the index pairs of the list similar_pairs
Reported == {<<q.i, q.j>> : q \in Range(similar_pairs)}
\* score is greater than, and not equal to, the threshold
StrictlyGreater(score) ==
    score.num * ThresholdScore.den > ThresholdScore.num * score.den
\* score is the threshold
EqualsThreshold(score) ==
    score.num * ThresholdScore.den = ThresholdScore.num * score.den

\* C17: the pairs in similar_pairs are the pairs read so far whose score is
\* strictly greater than the threshold, each once and with its score; when the
\* loops end they are exactly the pairs (i, j), i < j, of the sample with such
\* a score, and no pair whose score equals the threshold is among them.
C17_StrictThreshold ==
    /\ Reported = {p \in Range(compared) : StrictlyGreater(ScoreOf(p))}
    /\ \A a, b \in DOMAIN similar_pairs :
          /\ similar_pairs[a].score = ScoreOf(<<similar_pairs[a].i, similar_pairs[a].j>>)
          /\ (a # b) => <<similar_pairs[a].i, similar_pairs[a].j>>
                           # <<similar_pairs[b].i, similar_pairs[b].j>>
    /\ pc = "scored" =>
          /\ Reported = {p \in IndexPairs : StrictlyGreater(ScoreOf(p))}
          /\ \A p \in IndexPairs : EqualsThreshold(ScoreOf(p)) => p \notin Reported

C17_Witness ==
    /\ pc = "scored"
    /\ \E p, q, r \in IndexPairs :
          /\ EqualsThreshold(ScoreOf(p)) /\ p \notin Reported
          /\ StrictlyGreater(ScoreOf(q)) /\ q \in Reported
          /\ ~StrictlyGreater(ScoreOf(r)) /\ ~EqualsThreshold(ScoreOf(r)) /\ r \notin Reported

\* the terms of the a-th sampled description
SampledTerms(a) ==
    IF df[non_dupes[a]]["description"].na THEN <<>>
    ELSE Terms(df[non_dupes[a]]["description"].str)

LevelTokens ==
    { <<"i">>, <<"i","i">>, <<"i","i","i">>, <<"i","v">>, <<"v">>, <<"v","i">>,
      <<"1">>, <<"2">>, <<"3">>, <<"4">> } \cup Range(TitleModifiers)

\* s is a base title, a space and the token: the base title, <<>> otherwise
BaseTitle(s, token) ==
    LET n == Len(s) - Len(token) - 1
    IN  IF n >= 1 /\ Lower(SubSeq(s, n + 1, Len(s))) = <<" ">> \o token
        THEN SubSeq(s, 1, n) ELSE <<>>

\* C19: for a title made of a base title T, a space and a level token, each
\* implementation of normalize_title returns what it returns for T alone, so
\* both titles give the same title part of the composite key.
C19_TitleLevelStripping ==
    (nz_fn = "normalize_title" /\ Len(nz_out) >= 1 /\ ~nz_in.na) =>
        \A token \in LevelTokens :
            BaseTitle(nz_in.str, token) # <<>> =>
                /\ nz_out[1].ok
                /\ nz_out[1] = normalize_title(impl, Str(BaseTitle(nz_in.str, token)))

\* a location lower-cased, trimmed, its whitespace runs collapsed, then the
\* alias table applied by substring replacement
AliasedLocation(s) == ApplyReplacements(CollapseSpace(Strip(Lower(s))), 1)

\* C20: each implementation's normalization of a location returns the location
\* lower-cased, trimmed, whitespace-collapsed and with the aliases replaced.
C20_LocationNormalization ==
    (nz_fn = "normalize_location" /\ Len(nz_out) >= 1 /\ ~nz_in.na) =>
        /\ nz_out[1].ok
        /\ nz_out[1].val = AliasedLocation(nz_in.str)

(***************************************************************************)
(* Properties of the totals, the input table and the output table.         *)
(***************************************************************************)
\* C21: once Stage 1 has run, the printed number of exact duplicates is the
\* number of records the run removes: the number of rows less the number of
\* unflagged rows.
C21_ReportedDuplicateTotal ==
    Stage1Done => exact_dupes = Len(df) - Cardinality(Kept)

\* C22: after find_duplicates has returned, and after text_similarity_check
\* has returned, the caller's table has the columns and the values it had
\* when it was passed in.
C22_InputNotMutated ==
    (impl = "JobDeduplicator" /\ pc \in {"marked", "checked", "done"}) =>
        /\ columns \subseteq InputColumns
        /\ df = input

\* the position in the table of the h-th unflagged row
NthKept(h) == CHOOSE k \in Kept : Cardinality({x \in Kept : x <= k}) = h

\* C23: the output table holds the unflagged records in the order of the
\* input: its h-th row is the h-th unflagged row of the input.
C23_KeptPreservesOrder ==
    pc = "done" =>
        /\ Len(df_final.rows) = Cardinality(Kept)
        /\ \A h \in 1..Len(df_final.rows) :
              Passthrough(df_final.rows[h]) = Passthrough(input[NthKept(h)])

C23_Witness ==
    /\ pc = "done"
    /\ Len(input) = 3
    /\ Kept = {1, 3}
    /\ Passthrough(input[1]) # Passthrough(input[3])
    /\ Passthrough(df_final.rows[1]) = Passthrough(input[1])
    /\ Passthrough(df_final.rows[2]) = Passthrough(input[3])

\* C24: two rows with the same composite key have the same company_norm, the
\* same title_norm and the same location_norm.
C24_KeyInjective ==
    Keyed =>
        \A i, j \in Rows :
            Key(i) = Key(j) =>
                /\ df[i]["company_norm"] = df[j]["company_norm"]
                /\ df[i]["title_norm"] = df[j]["title_norm"]
                /\ df[i]["location_norm"] = df[j]["location_norm"]

\* C25: in the table the script writes, the h-th row has, in every column of
\* the input (job_id included), the value the h-th unflagged record had in the
\* input, and the columns added for the deduplication are gone.
C25_PassthroughUntouched ==
    (impl = "deduplicate_final" /\ pc = "done") =>
        /\ df_final.columns \cap DroppedColumns = {}
        /\ \A h \in 1..Len(df_final.rows) :
              /\ DOMAIN df_final.rows[h] = DOMAIN input[NthKept(h)]
              /\ \A c \in DOMAIN df_final.rows[h] :
                    df_final.rows[h][c] = input[NthKept(h)][c]

\* C25, amended: in the table the script writes, the h-th row has, in every
\* column of the input but job_id, the value the h-th unflagged record had in
\* the input; its job_id is h; and the columns company_norm, title_norm,
\* location_norm, composite_key and is_duplicate are gone.
C25_PassthroughButJobId ==
    (impl = "deduplicate_final" /\ pc = "done") =>
        /\ df_final.columns \cap {"company_norm", "title_norm", "location_norm",
                                  "composite_key", "is_duplicate"} = {}
        /\ \A h \in 1..Len(df_final.rows) :
              /\ DOMAIN df_final.rows[h] = DOMAIN input[NthKept(h)]
              /\ DOMAIN df_final.rows[h] = df_final.columns
              /\ \A c \in DOMAIN df_final.rows[h] \ {"job_id"} :
                    df_final.rows[h][c] = input[NthKept(h)][c]
              /\ df_final.rows[h]["job_id"] = h

C25_Witness ==
    /\ impl = "deduplicate_final"
    /\ pc = "done"
    /\ Len(input) = 3
    /\ Len(df_final.rows) = 2
    /\ input[NthKept(2)]["job_id"] = 3
    /\ df_final.rows[2]["job_id"] = 2
    /\ "description" \in df_final.columns

(***************************************************************************)
(* Properties of the scripts around the deduplication.                     *)
(***************************************************************************)
\* C26: when the deduplication script has computed the composite keys, no
\* company_name and no location of the table is a nested Adzuna value still
\* to be decoded to its display name.
C26_DecodingPrecedesKeying ==
    Keyed =>
        \A k \in Rows : ~IsNested(df[k]["company_name"]) /\ ~IsNested(df[k]["location"])

\* C27: when the deduplication runs on the table its first run has kept, the
\* second run flags no row, and its output is the table it was given, row for
\* row.
C27_Stage1Idempotent ==
    runs >= 2 =>
        /\ Stage1Done => \A k \in Rows : ~IsDup(k)
        /\ pc = "done" =>
              /\ Len(df_final.rows) = Len(input)
              /\ \A h \in 1..Len(input) :
                    Passthrough(df_final.rows[h]) = Passthrough(input[h])

C27_Witness ==
    /\ runs = 2
    /\ pc = "done"
    /\ impl = "JobDeduplicator"
    /\ Len(input) = 2
    /\ input[2]["job_id"] = 3
    /\ Len(df_final.rows) = 2

(***************************************************************************)
(* Properties of the collectors.                                           *)
(***************************************************************************)
\* C28: when max_requests is an integer (0 included), collect_jobs never has
\* made more than max_requests calls of search_jobs.
C28_RequestBudget ==
    (linkedin.pc # "not called" /\ ~linkedin.max_requests.none) =>
        linkedin.request_count <= linkedin.max_requests.int

\* C29: in the history of search_jobs, a request that is followed by anything
\* is followed by one _delay of at least delay_min seconds, so no two requests
\* are made without such a wait in between.
C29_DelayBetweenRequests ==
    indeed.pc # "not called" =>
        \A i \in 1..(Len(indeed.log) - 1) :
            indeed.log[i][1] = "request" =>
                /\ indeed.log[i + 1][1] = "delay"
                /\ indeed.log[i + 1][2] >= indeed.delay_min

\* C30: whatever the server answers, search_jobs has never sent more than
\* max_pages requests, the pages it has asked for are 1, 2, ... in this order
\* with none asked twice, all_jobs holds every job received so far, and the
\* function returns.
C30_PaginationTerminates ==
    /\ [](usajobs.pc # "not called" =>
            /\ Len(usajobs.requested) <= usajobs.max_pages
            /\ \A i \in 1..Len(usajobs.requested) : usajobs.requested[i] = i
            /\ usajobs.all_jobs = usajobs.received)
    /\ <>(usajobs.pc = "returned")

C30_Witness ==
    /\ usajobs.pc = "returned"
    /\ usajobs.max_pages = 3
    /\ usajobs.requested = <<1, 2, 3>>
    /\ usajobs.last = "more"
    /\ Len(usajobs.all_jobs) = 4

====
